---- MODULE Spec2Model ----
(***************************************************************************)
(* A model of the "Truth or Dare" game of src/src/pages/Index.tsx: the     *)
(* GameState/PlayerStats aggregate, the task lifecycle (selection timer,   *)
(* pending task, countdown, resolution), the shop, the quest reward claim  *)
(* and the asynchronous share callback, with the level curve of            *)
(* src/src/utils/level-utils.ts and the quest templates of                 *)
(* src/unnamed/part_002 (the quest-data module).                           *)
(*                                                                         *)
(* Time is measured in clock units of CLOCK_UNIT_MS milliseconds; every    *)
(* duration the code adds to Date.now() is a whole number of units.        *)
(* A null number (timestamp, countdown, task id) is NULL, a null string is  *)
(* NONE.                                                                   *)
(***************************************************************************)
EXTENDS Integers, Sequences, FiniteSets, TLC

\* ------------------------------------------------------------------ bounds
\* user operations in one behaviour that start something new: a selection, a
\* purchase, a share, a reward claim, a change of difficulty, a step of the
\* clock
MaxOps == 2

\* the level utilities taken by themselves: xp runs over 0..MaxXp and over the
\* two values at each level threshold L^2 * 100 for the MaxWide + 1 levels L
\* from 2^23 - 1 on; the level argument of calculateProgress over
\* -MaxBelow..MaxLevel
MaxXp == 400
MaxWide == 2
MaxBelow == 2
MaxLevel == 4

\* --------------------------------------------------------- program constants
NULL == -1
\* the null of a string-valued field
NONE == "null"
CLOCK_UNIT_MS == 1800000
HOUR_MS == 3600000
XP_BOOST_MS == 3600000
SURPRISE_BOOST_MS == 1800000
DAY_MS == 86400000
PENALTY_POINTS == 5
COUNTDOWN_START == 60

TRUTH == "PRAVDA"
DARE == "DEISTVIE"
Kinds == {TRUTH, DARE}
Difficulties == {"easy", "medium", "hard"}

\* a maximum that forgets its second argument
Max_first(a, b) == a

\* Math.max / Math.min
Max(a, b) == IF a >= b THEN a ELSE b
Min(a, b) == IF a <= b THEN a ELSE b

\* --------------------------------------------------------------- level curve
\* Math.floor(Math.sqrt(x)) for the rational x = n / d, as the largest k with
\* k * k * d <= n: what the double operations give for the xp of a game state
\* (calculateLevelDouble below is the same function in double arithmetic)
RECURSIVE FloorSqrtDiv(_, _, _)
FloorSqrtDiv(n, d, k) ==
    IF (k + 1) * (k + 1) * d <= n THEN FloorSqrtDiv(n, d, k + 1) ELSE k

calculateLevel(xp) == FloorSqrtDiv(xp, 100, 0) + 1

calculateXpForNextLevel(currentLevel) == currentLevel * currentLevel * 100

\* a progress that is not clamped
calculateProgress_unclamped(xp, currentLevel) ==
    LET currentLevelXp == (currentLevel - 1) * (currentLevel - 1) * 100
        nextLevelXp    == currentLevel * currentLevel * 100
        num == (xp - currentLevelXp) * 100
        den == nextLevelXp - currentLevelXp
    IN  IF den < 0 THEN [nan |-> FALSE, num |-> 0 - num, den |-> 0 - den]
        ELSE [nan |-> den = 0, num |-> num, den |-> den]

\* calculateProgress: ((xp - currentLevelXp) / (nextLevelXp - currentLevelXp))
\* * 100 as the fraction num / den with den > 0, then Math.min(Math.max(.., 0),
\* 100).  A division by 0 gives NaN for 0 / 0, which min and max hand on, and
\* an infinity otherwise, which is clamped.  The rounding of the quotient to a
\* double is left out: the fraction is exact
calculateProgress(xp, currentLevel) ==
    LET currentLevelXp == (currentLevel - 1) * (currentLevel - 1) * 100
        nextLevelXp    == currentLevel * currentLevel * 100
        num == (xp - currentLevelXp) * 100
        den == nextLevelXp - currentLevelXp
        top == IF den < 0 THEN 0 - num ELSE num
        bot == IF den < 0 THEN 0 - den ELSE den
    IN  IF den = 0
        THEN [nan |-> num = 0, num |-> IF num > 0 THEN 100 ELSE 0, den |-> 1]
        ELSE IF top <= 0 THEN [nan |-> FALSE, num |-> 0, den |-> 1]
        ELSE IF top >= 100 * bot THEN [nan |-> FALSE, num |-> 100, den |-> 1]
        ELSE [nan |-> FALSE, num |-> top, den |-> bot]

\* ------------------------------------------------ numbers beyond 32 bits
\* a natural number as its limbs, least significant first, without leading
\* zero limbs; 0 is <<>>
LimbBits == 15
LimbBase == 2^LimbBits

RECURSIVE Norm(_)
Norm(a) == IF a # <<>> /\ a[Len(a)] = 0 THEN Norm(SubSeq(a, 1, Len(a) - 1)) ELSE a

RECURSIVE Wide(_)
Wide(n) == IF n = 0 THEN <<>> ELSE <<n % LimbBase>> \o Wide(n \div LimbBase)

RECURSIVE Narrow(_)
Narrow(a) == IF a = <<>> THEN 0 ELSE a[1] + LimbBase * Narrow(Tail(a))

limb(a, i) == IF i <= Len(a) THEN a[i] ELSE 0

RECURSIVE AddFrom(_, _, _, _)
AddFrom(a, b, i, carry) ==
    IF i > Len(a) /\ i > Len(b)
    THEN (IF carry = 0 THEN <<>> ELSE <<carry>>)
    ELSE LET sum == limb(a, i) + limb(b, i) + carry
         IN  <<sum % LimbBase>> \o AddFrom(a, b, i + 1, sum \div LimbBase)

Add(a, b) == AddFrom(a, b, 1, 0)

\* a - b for a >= b
RECURSIVE SubFrom(_, _, _, _)
SubFrom(a, b, i, borrow) ==
    IF i > Len(a) THEN <<>>
    ELSE LET diff == limb(a, i) - limb(b, i) - borrow
         IN  <<diff % LimbBase>> \o SubFrom(a, b, i + 1, IF diff < 0 THEN 1 ELSE 0)

Sub(a, b) == Norm(SubFrom(a, b, 1, 0))

RECURSIVE LessFrom(_, _, _)
LessFrom(a, b, i) ==
    IF i = 0 THEN FALSE
    ELSE IF a[i] # b[i] THEN a[i] < b[i]
    ELSE LessFrom(a, b, i - 1)

Less(a, b) ==
    IF Len(a) # Len(b) THEN Len(a) < Len(b) ELSE LessFrom(a, b, Len(a))

\* a * k for 0 <= k < LimbBase
RECURSIVE TimesFrom(_, _, _, _)
TimesFrom(a, k, i, carry) ==
    IF i > Len(a) THEN (IF carry = 0 THEN <<>> ELSE <<carry>>)
    ELSE LET prod == a[i] * k + carry
         IN  <<prod % LimbBase>> \o TimesFrom(a, k, i + 1, prod \div LimbBase)

Times(a, k) == Norm(TimesFrom(a, k, 1, 0))

RECURSIVE Mul(_, _)
Mul(a, b) ==
    IF a = <<>> \/ b = <<>> THEN <<>>
    ELSE Add(Times(b, a[1]),
             LET rest == Mul(Tail(a), b) IN IF rest = <<>> THEN <<>> ELSE <<0>> \o rest)

\* floor(a / k) and a mod k for 0 < k < LimbBase, from the top limb down
RECURSIVE QuotFrom(_, _, _, _)
QuotFrom(a, k, i, rem) ==
    IF i = 0 THEN [quot |-> <<>>, rem |-> rem]
    ELSE LET cur == rem * LimbBase + a[i]
             low == QuotFrom(a, k, i - 1, cur % k)
         IN  [quot |-> low.quot \o <<cur \div k>>, rem |-> low.rem]

Quot(a, k) ==
    LET r == QuotFrom(a, k, Len(a), 0) IN [quot |-> Norm(r.quot), rem |-> r.rem]

\* a * 2^n and floor(a / 2^n): whole limbs, then the bits left over
Shl(a, n) ==
    LET bits == Times(a, 2^(n % LimbBits))
    IN  IF bits = <<>> THEN <<>> ELSE [i \in 1..(n \div LimbBits) |-> 0] \o bits

Shr(a, n) ==
    IF n \div LimbBits >= Len(a) THEN <<>>
    ELSE Quot(SubSeq(a, n \div LimbBits + 1, Len(a)), 2^(n % LimbBits)).quot

RECURSIVE BitsOf(_)
BitsOf(n) == IF n = 0 THEN 0 ELSE 1 + BitsOf(n \div 2)

BitLen(a) == IF a = <<>> THEN 0 ELSE LimbBits * (Len(a) - 1) + BitsOf(a[Len(a)])

isOdd(a) == a # <<>> /\ a[1] % 2 = 1

\* floor(sqrt(a)): the bits of the root from bit b down
RECURSIVE RootFrom(_, _, _)
RootFrom(a, root, b) ==
    IF b < 0 THEN root
    ELSE LET cand == Add(root, Shl(<<1>>, b))
         IN  IF Less(a, Mul(cand, cand))
             THEN RootFrom(a, root, b - 1)
             ELSE RootFrom(a, cand, b - 1)

Root(a) == RootFrom(a, <<>>, BitLen(a) \div 2)

\* ------------------------------------------------------------ IEEE doubles
\* a positive double is m * 2^e with 2^52 <= m < 2^53; 0 has m = <<>>
Precision == 53

\* m * 2^e for an m of Precision + 1 bits, rounded to nearest, ties to even;
\* inexact: bits were lost below m
Rounded(m, e, inexact) ==
    LET half == Quot(m, 2)
        up   == half.rem = 1 /\ (inexact \/ isOdd(half.quot))
        mant == IF up THEN Add(half.quot, <<1>>) ELSE half.quot
    IN  IF BitLen(mant) > Precision
        THEN [m |-> Quot(mant, 2).quot, e |-> e + 2]
        ELSE [m |-> mant, e |-> e + 1]

\* the double of the integer n < 2^53
Double(n) ==
    IF n = <<>> THEN [m |-> <<>>, e |-> 0]
    ELSE [m |-> Shl(n, Precision - BitLen(n)), e |-> BitLen(n) - Precision]

\* x / k for a double x and an integer 0 < k < LimbBase
Divide(d, k) ==
    IF d.m = <<>> THEN d
    ELSE LET s == BitsOf(k) + 1
             q == Quot(Shl(d.m, s), k)
             \* q.quot has Precision + 1 or Precision + 2 bits
             extra == BitLen(q.quot) - (Precision + 1)
             top == Shr(q.quot, extra)
             lost == q.rem # 0 \/ Shl(top, extra) # q.quot
         IN  Rounded(top, d.e - s + extra, lost)

\* Math.sqrt(x)
MathSqrt(d) ==
    IF d.m = <<>> THEN d
    ELSE LET t == IF (d.e - (Precision + 1)) % 2 = 0 THEN Precision + 1 ELSE Precision + 2
             M == Shl(d.m, t)
             R == Root(M)
         IN  Rounded(R, (d.e - t) \div 2, Mul(R, R) # M)

\* Math.floor(x) for x >= 0, as an integer
MathFloor(d) ==
    IF d.m = <<>> THEN <<>>
    ELSE IF d.e >= 0 THEN Shl(d.m, d.e)
    ELSE Shr(d.m, 0 - d.e)

\* calculateLevel in the arithmetic of the language: Math.floor(Math.sqrt(xp /
\* 100)) + 1 on doubles, for an integer xp < 2^53 given by its limbs
calculateLevelDouble(xp) == Add(MathFloor(MathSqrt(Divide(Double(xp), 100))), <<1>>)

getXpReward(difficulty) ==
    CASE difficulty = "easy" -> 20
      [] difficulty = "medium" -> 40
      [] difficulty = "hard" -> 80
      [] OTHER -> 20

\* a points table that pays the easy reward at every difficulty
DIFFICULTY_POINTS_flat(difficulty) == 10

DIFFICULTY_POINTS(difficulty) ==
    CASE difficulty = "easy" -> 10
      [] difficulty = "medium" -> 25
      [] difficulty = "hard" -> 50

\* --------------------------------------------------------------------- ranks
RANKS == << [id |-> "novice",  minXp |-> 0],
            [id |-> "amateur", minXp |-> 500],
            [id |-> "expert",  minXp |-> 2000],
            [id |-> "master",  minXp |-> 5000],
            [id |-> "legend",  minXp |-> 15000] >>

\* sort by minXp descending, take the first rank with xp >= minXp, else RANKS[0]
getCurrentRank(xp) ==
    LET ok == {i \in 1..Len(RANKS) : xp >= RANKS[i].minXp}
    IN  IF ok = {} THEN RANKS[1]
        ELSE RANKS[CHOOSE i \in ok : \A j \in ok : RANKS[j].minXp <= RANKS[i].minXp]

\* a rank table without multipliers
rankMultiplier10_flat(rankId) == 10

\* the rank multiplier in tenths (1.5, 1.3, 1.2, 1.1, 1)
rankMultiplier10(rankId) ==
    CASE rankId = "legend" -> 15
      [] rankId = "master" -> 13
      [] rankId = "expert" -> 12
      [] rankId = "amateur" -> 11
      [] OTHER -> 10

\* ----------------------------------------------------------- quest templates
\* QUEST_TEMPLATES.DAILY_PERSONAL ++ WEEKLY_PERSONAL ++ COMMUNITY_GOAL, in the
\* order of the source; badgeId "" , items 0 and tempBoost 0 stand for "absent"
QUEST_TEMPLATES ==
    << [type |-> "DAILY_PERSONAL", title |-> "truth_master",
        targetValue |-> <<3, 5, 7>>, points |-> <<50, 100, 150>>,
        xp |-> <<100, 200, 300>>, badgeId |-> "", skipItems |-> 0,
        tempBoost |-> [type |-> "NONE", durationHours |-> 0]],
       [type |-> "DAILY_PERSONAL", title |-> "daredevil",
        targetValue |-> <<3, 5, 7>>, points |-> <<50, 100, 150>>,
        xp |-> <<100, 200, 300>>, badgeId |-> "", skipItems |-> 0,
        tempBoost |-> [type |-> "NONE", durationHours |-> 0]],
       [type |-> "DAILY_PERSONAL", title |-> "serial_player",
        targetValue |-> <<3, 5, 7>>, points |-> <<75, 150, 250>>,
        xp |-> <<150, 300, 500>>, badgeId |-> "", skipItems |-> 0,
        tempBoost |-> [type |-> "XP_BOOST", durationHours |-> 1]],
       [type |-> "WEEKLY_PERSONAL", title |-> "expert_of_week",
        targetValue |-> <<10, 15, 20>>, points |-> <<300, 500, 750>>,
        xp |-> <<600, 1000, 1500>>, badgeId |-> "expert_weekly", skipItems |-> 0,
        tempBoost |-> [type |-> "NONE", durationHours |-> 0]],
       [type |-> "WEEKLY_PERSONAL", title |-> "social_butterfly",
        targetValue |-> <<5, 10, 15>>, points |-> <<200, 400, 600>>,
        xp |-> <<400, 800, 1200>>, badgeId |-> "", skipItems |-> 1,
        tempBoost |-> [type |-> "NONE", durationHours |-> 0]],
       [type |-> "COMMUNITY_GOAL", title |-> "community_challenge",
        targetValue |-> <<1000, 5000, 10000>>, points |-> <<100, 300, 500>>,
        xp |-> <<200, 600, 1000>>, badgeId |-> "community_champion", skipItems |-> 0,
        tempBoost |-> [type |-> "NONE", durationHours |-> 0]] >>

\* the tier Math.floor(Math.random() * 3) picks, counted from 1
Tiers == 1..3

\* one quest instantiated from template number t at tier d, created at time at;
\* its id (type, creation time, random suffix) is unique: the template number.
\* generateDailyQuests copies tempBoost only, generateWeeklyQuests badgeId and
\* items only, generateCommunityQuest badgeId only.
newQuest(t, d, at, lifeMs) ==
    LET tpl == QUEST_TEMPLATES[t]
    IN  [id |-> t, type |-> tpl.type, title |-> tpl.title,
         targetValue |-> tpl.targetValue[d], currentProgress |-> 0,
         reward |-> [points |-> tpl.points[d], xp |-> tpl.xp[d],
                     badgeId |-> IF tpl.type = "DAILY_PERSONAL" THEN "" ELSE tpl.badgeId,
                     skipItems |-> IF tpl.type = "WEEKLY_PERSONAL" THEN tpl.skipItems ELSE 0,
                     tempBoost |-> IF tpl.type = "DAILY_PERSONAL"
                                   THEN tpl.tempBoost
                                   ELSE [type |-> "NONE", durationHours |-> 0],
                     claimed |-> FALSE],
         isActive |-> TRUE, isCompleted |-> FALSE,
         startDate |-> at, endDate |-> at + lifeMs \div CLOCK_UNIT_MS]

generateDailyQuests(tiers, at) ==
    [i \in 1..3 |-> newQuest(i, tiers[i], at, DAY_MS)]

generateWeeklyQuests(tiers, at) ==
    [i \in 1..2 |-> newQuest(3 + i, tiers[3 + i], at, 7 * DAY_MS)]

generateCommunityQuest(tiers, at) == newQuest(6, tiers[6], at, 7 * DAY_MS)

\* ---------------------------------------------------------- daily challenges
generateDailyChallenges ==
    << [id |-> "daily_streak", type |-> "STREAK", target |-> 5,
        reward |-> [xp |-> 150, points |-> 300], progress |-> 0, isCompleted |-> FALSE],
       [id |-> "daily_photo", type |-> "PHOTO", target |-> 3,
        reward |-> [xp |-> 200, points |-> 400], progress |-> 0, isCompleted |-> FALSE],
       [id |-> "daily_category", type |-> "CATEGORY", target |-> 3,
        reward |-> [xp |-> 100, points |-> 250], progress |-> 0, isCompleted |-> FALSE] >>

\* ------------------------------------------------------------ initial values
\* (achievements, photoTasksCompleted and tournamentWins are never written and
\* are left out; photoBoostEndTime and premiumAccess are the fields the shop adds)
INITIAL_PLAYER_STATS ==
    [points |-> 0, tasksCompleted |-> 0, truthsAnswered |-> 0, daresCompleted |-> 0,
     currentStreak |-> 0, maxStreak |-> 0, level |-> 1, xp |-> 0,
     activeQuests |-> <<>>, completedQuests |-> <<>>, badges |-> <<>>,
     hardTasksCompleted |-> 0, sharedTasks |-> 0, skipTokens |-> 3,
     xpBoostEndTime |-> NULL, penalties |-> 0,
     photoBoostEndTime |-> NULL, premiumAccess |-> FALSE]

INITIAL_GAME_STATE(tiers, at) ==
    [difficulty |-> "medium",
     playerStats |-> INITIAL_PLAYER_STATS,
     lastTaskTimestamp |-> NULL,
     availableQuests |-> generateDailyQuests(tiers, at) \o generateWeeklyQuests(tiers, at),
     communityQuests |-> << generateCommunityQuest(tiers, at) >>]

\* ------------------------------------------------------- progression engine
\* the XP of one resolution: base, then the rank multiplier of the rank held
\* before the gain, then x1.5 for a completed photo task, then x2 inside the
\* boost window, with Math.floor after each stage
xpGained(prev, isCompleted, isPhotoTask, t) ==
    LET oldRank == getCurrentRank(prev.playerStats.xp)
        base    == IF isCompleted THEN getXpReward(prev.difficulty) ELSE 0
        ranked  == (base * rankMultiplier10(oldRank.id)) \div 10
        photo   == IF isPhotoTask /\ isCompleted THEN (ranked * 15) \div 10 ELSE ranked
    IN  IF prev.playerStats.xpBoostEndTime # NULL /\ t < prev.playerStats.xpBoostEndTime
        THEN photo * 2
        ELSE photo

newStreakOf(prev, isCompleted) ==
    IF isCompleted THEN prev.playerStats.currentStreak + 1 ELSE 0

\* dailyChallenges.map(...) inside updatePlayerStats
updatedChallenges(challenges, newStreak, isPhotoTask, isCompleted) ==
    [i \in 1..Len(challenges) |->
        LET challenge == challenges[i]
            newProgress ==
                CASE challenge.type = "STREAK" -> newStreak
                  [] challenge.type = "PHOTO" /\ isPhotoTask /\ isCompleted ->
                        challenge.progress + 1
                  [] OTHER -> challenge.progress
        IN  IF challenge.isCompleted THEN challenge
            ELSE [challenge EXCEPT !.progress = newProgress,
                                   !.isCompleted = (newProgress >= challenge.target)]]

\* the state the updater of updatePlayerStats returns
updatePlayerStats(prev, isCompleted, taskType, isPhotoTask, t) ==
    LET ps        == prev.playerStats
        newStreak == newStreakOf(prev, isCompleted)
        basePoints == IF isCompleted THEN DIFFICULTY_POINTS(prev.difficulty) ELSE 0
        newXp     == ps.xp + xpGained(prev, isCompleted, isPhotoTask, t)
    IN  [prev EXCEPT
           !.playerStats =
              [ps EXCEPT
                 !.points = ps.points + basePoints,
                 !.xp = newXp,
                 !.tasksCompleted = IF isCompleted THEN @ + 1 ELSE @,
                 !.truthsAnswered = IF isCompleted /\ taskType = TRUTH THEN @ + 1 ELSE @,
                 !.daresCompleted = IF isCompleted /\ taskType = DARE THEN @ + 1 ELSE @,
                 !.currentStreak = newStreak,
                 !.maxStreak = Max(newStreak, ps.maxStreak),
                 !.level = calculateLevel(newXp),
                 !.hardTasksCompleted =
                     IF isCompleted /\ prev.difficulty = "hard" THEN @ + 1 ELSE @],
           !.lastTaskTimestamp = t]

\* the updater of the skip-token branch of completeTask;
\* (skipTokens || 1) - 1 is 0 for skipTokens 0
\* a token skip that is paid but not counted as a task
useSkipToken_uncounted(prev) ==
    LET ps == prev.playerStats
    IN  [prev EXCEPT
           !.playerStats =
              [ps EXCEPT
                 !.skipTokens = (IF ps.skipTokens = 0 THEN 1 ELSE ps.skipTokens) - 1,
                 !.points = ps.points + DIFFICULTY_POINTS(prev.difficulty),
                 !.xp = ps.xp + getXpReward(prev.difficulty)]]

useSkipToken(prev) ==
    LET ps == prev.playerStats
    IN  [prev EXCEPT
           !.playerStats =
              [ps EXCEPT
                 !.skipTokens = (IF ps.skipTokens = 0 THEN 1 ELSE ps.skipTokens) - 1,
                 !.points = ps.points + DIFFICULTY_POINTS(prev.difficulty),
                 !.tasksCompleted = ps.tasksCompleted + 1,
                 !.xp = ps.xp + getXpReward(prev.difficulty)]]

\* a penalty that takes the points without a floor
applyPenalty_unclamped(prev) ==
    [prev EXCEPT
       !.playerStats =
          [prev.playerStats EXCEPT
             !.points = @ - PENALTY_POINTS,
             !.penalties = @ + 1,
             !.currentStreak = 0]]

\* the updater of applyPenalty
applyPenalty(prev) ==
    [prev EXCEPT
       !.playerStats =
          [prev.playerStats EXCEPT
             !.points = Max(0, @ - PENALTY_POINTS),
             !.penalties = @ + 1,
             !.currentStreak = 0]]

\* the updater every share path applies after completeTask
countShare(prev) ==
    [prev EXCEPT !.playerStats = [prev.playerStats EXCEPT !.sharedTasks = @ + 1]]

\* ---------------------------------------------------------------------- shop
SHOP_ITEMS == {"theme", "xp_boost", "skip", "photo_boost", "premium_tasks", "surprise"}

\* a shop where everything is free
price_free(item) == 0

price(item) ==
    CASE item = "theme" -> 500
      [] item = "xp_boost" -> 300
      [] item = "skip" -> 200
      [] item = "photo_boost" -> 400
      [] item = "premium_tasks" -> 1000
      [] item = "surprise" -> 100

\* the five entries of the surprise item's table, picked by Math.random()
Surprises == {"xp", "points", "skipTokens", "xpBoost", "achievements"}

\* item.action(state); surprise is read by the surprise item only
shopAction(item, state, surprise, t) ==
    LET ps == state.playerStats
        stats ==
          CASE item = "theme" -> [ps EXCEPT !.points = @ - 500]
            [] item = "xp_boost" ->
                 [ps EXCEPT !.points = @ - 300,
                            !.xpBoostEndTime = t + XP_BOOST_MS \div CLOCK_UNIT_MS]
            [] item = "skip" ->
                 [ps EXCEPT !.points = @ - 200, !.skipTokens = @ + 1]
            [] item = "photo_boost" ->
                 [ps EXCEPT !.points = @ - 400,
                            !.photoBoostEndTime = t + (2 * HOUR_MS) \div CLOCK_UNIT_MS]
            [] item = "premium_tasks" ->
                 [ps EXCEPT !.points = @ - 1000, !.premiumAccess = TRUE]
            [] item = "surprise" ->
                 [ps EXCEPT
                    !.points = @ - 100 + (IF surprise = "points" THEN 200 ELSE 0),
                    !.xp = @ + (IF surprise = "xp" THEN 100 ELSE 0),
                    !.skipTokens = @ + (IF surprise = "skipTokens" THEN 1 ELSE 0),
                    !.xpBoostEndTime =
                        IF surprise = "xpBoost"
                        THEN t + SURPRISE_BOOST_MS \div CLOCK_UNIT_MS
                        ELSE @]
    IN  [state EXCEPT !.playerStats = stats]

\* ------------------------------------------------------------- quest rewards
\* a guard that does not read the claimed flag
canClaim_completedOnly(quest) == quest.isCompleted

\* the guard of handleClaimQuestReward, read from the quest object itself
canClaim(quest) == quest.isCompleted /\ ~quest.reward.claimed

\* availableQuests.findIndex(q => q.id === id), 0 for -1
questIndex(quests, id) ==
    IF \E i \in 1..Len(quests) : quests[i].id = id
    THEN CHOOSE i \in 1..Len(quests) :
            quests[i].id = id /\ \A j \in 1..(i - 1) : quests[j].id # id
    ELSE 0

includes(seq, x) == \E i \in 1..Len(seq) : seq[i] = x

\* the state after the updater of handleClaimQuestReward has run for quest
claimReward(prev, quest, t) ==
    LET ps  == prev.playerStats
        r   == quest.reward
        idx == questIndex(prev.availableQuests, quest.id)
        stats ==
          [ps EXCEPT
             !.points = @ + r.points,
             !.xp = @ + r.xp,
             !.badges = IF r.badgeId # "" /\ ~includes(@, r.badgeId)
                        THEN Append(@, r.badgeId) ELSE @,
             !.skipTokens = @ + r.skipItems,
             !.xpBoostEndTime =
                 IF r.tempBoost.type = "XP_BOOST"
                 THEN t + (r.tempBoost.durationHours * HOUR_MS) \div CLOCK_UNIT_MS
                 ELSE @,
             !.completedQuests = Append(@, quest.id),
             !.activeQuests = SelectSeq(@, LAMBDA id : id # quest.id)]
    IN  [prev EXCEPT
           !.playerStats = stats,
           !.availableQuests =
               IF idx = 0 THEN @
               ELSE [@ EXCEPT ![idx].reward.claimed = TRUE]]

\* prev as the updater of handleClaimQuestReward leaves it: newState is a
\* shallow copy of prev, so every write to newState.playerStats, to its badges
\* and completedQuests and to the quest's reward lands in the objects of prev
prevAfterClaim(prev, quest, t) == claimReward(prev, quest, t)

\* --------------------------------------------------------------------- state
VARIABLES
    gameState,        \* useState<GameState>
    result,           \* the presented kind, or NONE
    task,             \* the presented task text (its number in the pool), or NULL
    currentTaskId,    \* generateTaskId(result, task), or NULL
    completedTasks,   \* useState<Set<string>>
    isAnimating,      \* a selection is deliberating
    timeLeft,         \* the countdown in seconds, or NULL
    photoActive,      \* photoChallenge.isActive
    history,          \* the presented kinds, oldest first
    dailyChallenges,  \* useState<DailyChallenge[]>
    shopError,        \* the shop's error message is shown
    toast,            \* the toasts the last step showed, in order
    selTimer,         \* the pending deliberation timer of playGame / selectManually
    clearOld,         \* pending 500 ms result-clearing timers set before the
                      \*   current selection started
    clearNew,         \* pending 500 ms result-clearing timers set since
    shares,           \* pending share/clipboard promises: the render each closed over
    now,              \* Date.now(), in clock units
    nTasks,           \* tasks presented so far (the last generated task id)
    ops,              \* operations counted against MaxOps so far
    resolutions,      \* per task id: how often completeTask resolved it
    claimCalls,       \* per quest id: how often handleClaimQuestReward was called
    initialState,     \* what the module-level INITIAL_GAME_STATE object holds
    aliased,          \* which objects gameState shares with INITIAL_GAME_STATE
    levelCall,        \* a call of a level utility taken by itself: its arguments and,
                      \*   once it has returned, its result
    localStorage,     \* the keys of window.localStorage the game uses
    fault             \* an effect of the mount has thrown: React has taken the
                      \*   component tree down

vars == << gameState, result, task, currentTaskId, completedTasks, isAnimating,
           timeLeft, photoActive, history, dailyChallenges, shopError, toast,
           selTimer, clearOld, clearNew, shares, now, nTasks, ops,
           resolutions, claimCalls, initialState, aliased, levelCall,
           localStorage, fault >>

\* the variables of the game
gameVars == << gameState, result, task, currentTaskId, completedTasks, isAnimating,
               timeLeft, photoActive, history, dailyChallenges, shopError, toast,
               selTimer, clearOld, clearNew, shares, now, nTasks, ops,
               resolutions, claimCalls, initialState, aliased, localStorage, fault >>

\* the variables of the task on screen
taskVars == << result, task, currentTaskId, isAnimating, timeLeft, photoActive,
               history, selTimer, nTasks >>
timerVars == << clearOld, clearNew >>
countVars == << ops, claimCalls >>

\* what a selection found on screen when it started
NoTask == [result |-> NONE, currentTaskId |-> NULL, counting |-> FALSE,
           photoActive |-> FALSE]

NoTimer == [kind |-> "none", choice |-> NONE, before |-> NoTask]

\* a restore that keeps the objects of INITIAL_GAME_STATE
restored_shared == [stats |-> TRUE, nested |-> TRUE, whole |-> FALSE]

\* the aliasing of a session restored from a stored blob: JSON.parse builds
\* objects of its own
restored == [stats |-> FALSE, nested |-> FALSE, whole |-> FALSE]

\* gameState is INITIAL_GAME_STATE itself: useState(INITIAL_GAME_STATE) with
\* nothing stored, and setGameState(INITIAL_GAME_STATE) in resetProgress
defaults == [stats |-> TRUE, nested |-> TRUE, whole |-> TRUE]

\* an update that spreads prev: the state object is a new one, the objects in
\* it are still the old ones
spreadState(a) == [a EXCEPT !.whole = FALSE]

\* an update that spreads prev and prev.playerStats: the playerStats object is
\* a new one too, the arrays and quests in it are still the old ones
spreadStats(a) == [a EXCEPT !.stats = FALSE, !.whole = FALSE]

\* ------------------------------------------------------------- localStorage
\* getItem of a key that is not stored returns null
absent == [held |-> FALSE, parses |-> FALSE, value |-> <<>>]

\* a stored text that JSON.parse throws on
malformed == [held |-> TRUE, parses |-> FALSE, value |-> <<>>]

\* JSON.stringify(value) of the plain data the game keeps (numbers, null,
\* booleans, strings, arrays and objects of them): a text that parses
stringify(value) == [held |-> TRUE, parses |-> TRUE, value |-> value]

\* JSON.parse(text) of a text that parses: the value in objects of its own
parse(text) == text.value

\* new Date().toDateString() at time t: the calendar day
toDateString(t) == (t * CLOCK_UNIT_MS) \div DAY_MS

\* the persist effect, which runs after every render with a new gameState
\* object: localStorage.setItem('truthOrDareGameState', JSON.stringify(gameState))
persisted(ls, gs) == [ls EXCEPT !.truthOrDareGameState = stringify(gs)]

\* { ...INITIAL_GAME_STATE, ...parsed } of the restore effect: the keys of
\* parsed win, playerStats as a whole among them
spread(initial, parsed) ==
    [k \in DOMAIN initial \cup DOMAIN parsed |->
        IF k \in DOMAIN parsed THEN parsed[k] ELSE initial[k]]

\* no level utility is looked at by itself
NoCall ==
    [fn |-> "none", xp |-> <<>>, level |-> 0, returned |-> FALSE,
     levelOut |-> <<>>, progress |-> [nan |-> FALSE, num |-> 0, den |-> 1]]

\* ------------------------------------------------------------ saved sessions
\* the state a session of n completed TRUTH tasks leaves behind
RECURSIVE replayCompleted(_, _, _)
replayCompleted(gs, n, t) ==
    IF n = 0 \/ gs.playerStats.xp < 0 THEN gs
    ELSE replayCompleted(updatePlayerStats(gs, TRUE, TRUTH, FALSE, t), n - 1, t)

RECURSIVE replayTokenSkips(_, _)
replayTokenSkips(gs, n) ==
    IF n = 0 THEN gs ELSE replayTokenSkips(useSkipToken(gs), n - 1)

\* quests as a stored blob may hold them: the quests in done are completed
withCompleted(gs, done) ==
    LET quests == gs.availableQuests
    IN  [gs EXCEPT !.availableQuests =
            [i \in 1..Len(quests) |->
                IF quests[i].id \in done
                THEN [quests[i] EXCEPT !.isCompleted = TRUE,
                                       !.currentProgress = quests[i].targetValue]
                ELSE quests[i]]]

\* purchases of an earlier session: n times the same item
RECURSIVE replayPurchases(_, _, _, _)
replayPurchases(gs, item, n, t) ==
    IF n = 0 \/ gs.playerStats.points < price(item) THEN gs
    ELSE replayPurchases(shopAction(item, gs, "xp", t), item, n - 1, t)

\* the blobs a session may find under the game-state key: the state an earlier
\* session, played at time 0, saved
freshAt(tiers, difficulty) ==
    [INITIAL_GAME_STATE(tiers, 0) EXCEPT !.difficulty = difficulty]

\* three token skips and seven completed tasks at hard, then an XP boost
\* bought: amateur, streak 7, no tokens, 200 points, the boost still running
SavedAmateur ==
    withCompleted(
       replayPurchases(
          replayCompleted(replayTokenSkips(freshAt(<<1, 2, 3, 1, 2, 3>>, "hard"), 3), 7, 0),
          "xp_boost", 1, 0),
       {1, 4})

\* 24 completed tasks at hard, two themes and a skip token bought: expert with
\* no points; the stored blob holds two completed quests
SavedExpert ==
    withCompleted(
       replayPurchases(
          replayPurchases(replayCompleted(freshAt(<<3, 1, 2, 3, 1, 2>>, "hard"), 24, 0),
                          "theme", 2, 0),
          "skip", 1, 0),
       {3, 5})

\* 55 completed tasks at hard, then four themes and two boosts bought and the
\* difficulty set to medium: master, 150 points, the boost still running
SavedMaster ==
    [replayPurchases(
        replayPurchases(replayCompleted(freshAt(<<2, 2, 2, 2, 2, 2>>, "hard"), 55, 0),
                        "theme", 4, 0),
        "xp_boost", 2, 0)
     EXCEPT !.difficulty = "medium"]

\* 151 completed tasks at hard, nothing bought: legend with 7550 points
SavedLegend == replayCompleted(freshAt(<<2, 2, 2, 2, 2, 2>>, "hard"), 151, 0)

SavedStates == {SavedAmateur, SavedExpert, SavedMaster, SavedLegend}

\* the state after the mount effects: the stored game state, if any, is spread
\* over INITIAL_GAME_STATE, and the daily challenges start from the stored
\* list, which is the generated one
InitGame ==
    /\ now = 1
    /\ gameState \in {INITIAL_GAME_STATE(<<1, 1, 1, 1, 1, 1>>, 1)} \cup SavedStates
    /\ result = NONE
    /\ task = NULL
    /\ currentTaskId = NULL
    /\ completedTasks = {}
    /\ isAnimating = FALSE
    /\ timeLeft = NULL
    /\ photoActive = FALSE
    /\ history = <<>>
    /\ dailyChallenges = generateDailyChallenges
    /\ shopError = FALSE
    /\ toast = <<>>
    /\ selTimer = NoTimer
    /\ clearOld = 0
    /\ clearNew = 0
    /\ shares = <<>>
    /\ nTasks = 0
    /\ ops = 0
    /\ resolutions = [i \in 1..MaxOps |-> 0]
    /\ claimCalls = [i \in 1..Len(gameState.availableQuests) |-> 0]
    /\ initialState = INITIAL_GAME_STATE(<<1, 1, 1, 1, 1, 1>>, 1)
    /\ aliased = IF gameState \in SavedStates THEN restored ELSE defaults
    /\ localStorage =
         [truthOrDareGameState |-> stringify(gameState),
          truthOrDareDailyChallenges |-> stringify(generateDailyChallenges),
          truthOrDareLastChallengeUpdate |-> toDateString(now)]
    /\ fault = FALSE

Init ==
    /\ InitGame
    /\ levelCall = NoCall

\* ------------------------------------------------------------ task lifecycle
\* what a handler created by the current render closes over
Render ==
    [result |-> result, task |-> task, currentTaskId |-> currentTaskId,
     completedTasks |-> completedTasks, photoActive |-> photoActive,
     dailyChallenges |-> dailyChallenges,
     skipTokens |-> gameState.playerStats.skipTokens]

\* a duplicate check that never fires
isDuplicate_never(c) == FALSE

\* the two early returns of completeTask
isPresented(c) == c.result # NONE /\ c.task # NULL /\ c.currentTaskId # NULL
isDuplicate(c) == c.currentTaskId \in c.completedTasks

\* a skip that never takes the token branch
usesToken_never(c, completed) == FALSE

\* the branch completeTask takes for a skip, from the skipTokens of its render
usesToken(c, completed) == ~completed /\ c.skipTokens > 0

\* the game state a resolution leaves
resolvedState(prev, c, completed, t) ==
    IF usesToken(c, completed)
    THEN useSkipToken(prev)
    ELSE updatePlayerStats(prev, completed, c.result, c.photoActive, t)

\* completeTask(completed) as the render c sees it; shared: the caller is a share
\* path, which counts the share afterwards whatever completeTask did; extra: the
\* toasts the caller adds
completeTask(c, completed, shared, extra) ==
    LET fin(gs) == IF shared THEN countShare(gs) ELSE gs
    IN  IF ~isPresented(c) THEN
            /\ gameState' = fin(gameState)
            /\ aliased' = IF shared THEN spreadStats(aliased) ELSE aliased
            /\ localStorage' = IF shared THEN persisted(localStorage, gameState')
                               ELSE localStorage
            /\ toast' = extra
            /\ UNCHANGED << completedTasks, dailyChallenges, timeLeft, photoActive,
                            clearNew, resolutions >>
        ELSE IF isDuplicate(c) THEN
            /\ gameState' = fin(gameState)
            /\ aliased' = IF shared THEN spreadStats(aliased) ELSE aliased
            /\ localStorage' = IF shared THEN persisted(localStorage, gameState')
                               ELSE localStorage
            /\ toast' = <<"already_completed">> \o extra
            /\ UNCHANGED << completedTasks, dailyChallenges, timeLeft, photoActive,
                            clearNew, resolutions >>
        ELSE
            /\ completedTasks' = c.completedTasks \cup {c.currentTaskId}
            /\ gameState' = fin(resolvedState(gameState, c, completed, now))
            /\ aliased' = spreadStats(aliased)
            /\ localStorage' = persisted(localStorage, gameState')
            /\ dailyChallenges' =
                 IF usesToken(c, completed) THEN dailyChallenges
                 ELSE updatedChallenges(c.dailyChallenges,
                                        newStreakOf(gameState, completed),
                                        c.photoActive, completed)
            /\ timeLeft' = NULL
            /\ photoActive' = FALSE
            /\ toast' = (IF usesToken(c, completed) THEN <<"skip_token_used">> ELSE <<>>)
                        \o << IF completed THEN "task_completed" ELSE "task_skipped" >>
                        \o extra
            /\ clearNew' = clearNew + 1
            /\ resolutions' = [resolutions EXCEPT ![c.currentTaskId] = @ + 1]

\* the Complete / Skip buttons are rendered for an unresolved presented task
buttonsShown == result # NONE /\ currentTaskId # NULL /\ currentTaskId \notin completedTasks

\* the Complete button
Complete ==
    /\ buttonsShown
    /\ completeTask(Render, TRUE, FALSE, <<>>)
    /\ UNCHANGED << result, task, currentTaskId, isAnimating, history, shopError,
                    selTimer, clearOld, shares, now, nTasks, countVars, levelCall, fault,
                    initialState >>

\* the Skip button
Skip ==
    /\ buttonsShown
    /\ completeTask(Render, FALSE, FALSE, <<>>)
    /\ UNCHANGED << result, task, currentTaskId, isAnimating, history, shopError,
                    selTimer, clearOld, shares, now, nTasks, countVars, levelCall, fault,
                    initialState >>

\* handlePhotoComplete, offered by the photo overlay
PhotoComplete ==
    /\ photoActive
    /\ completeTask(Render, TRUE, FALSE, <<"photo_done">>)
    /\ UNCHANGED << result, task, currentTaskId, isAnimating, history, shopError,
                    selTimer, clearOld, shares, now, nTasks, countVars, levelCall, fault,
                    initialState >>

\* the overlay's onSkip: the photo flow is closed, the task stays
PhotoSkip ==
    /\ photoActive
    /\ photoActive' = FALSE
    /\ UNCHANGED << gameState, result, task, currentTaskId, completedTasks,
                    isAnimating, timeLeft, history, dailyChallenges, shopError,
                    selTimer, timerVars, shares, now, nTasks, countVars,
                    resolutions, levelCall, fault,
                    initialState, aliased, localStorage >>
    /\ toast' = <<>>

\* the 500 ms timer of completeTask: setResult(null); setTask(null)
ClearOldFire ==
    /\ clearOld > 0
    /\ clearOld' = clearOld - 1
    /\ result' = NONE
    /\ task' = NULL
    /\ toast' = <<>>
    /\ UNCHANGED << gameState, currentTaskId, completedTasks, isAnimating, timeLeft,
                    photoActive, history, dailyChallenges, shopError,
                    selTimer, clearNew, shares, now, nTasks, countVars, resolutions, levelCall, fault,
                    initialState, aliased, localStorage >>

ClearNewFire ==
    /\ clearNew > 0
    /\ clearNew' = clearNew - 1
    /\ result' = NONE
    /\ task' = NULL
    /\ toast' = <<>>
    /\ UNCHANGED << gameState, currentTaskId, completedTasks, isAnimating, timeLeft,
                    photoActive, history, dailyChallenges, shopError,
                    selTimer, clearOld, shares, now, nTasks, countVars, resolutions, levelCall, fault,
                    initialState, aliased, localStorage >>

\* ----------------------------------------------------------------- selection
\* a selection that leaves the countdown of the task on screen running
startSelection_keepsCountdown(kind, choice) ==
    /\ ops < MaxOps
    /\ ops' = ops + 1
    /\ isAnimating' = TRUE
    /\ result' = NONE
    /\ task' = NULL
    /\ currentTaskId' = NULL
    /\ photoActive' = FALSE
    /\ selTimer' = [kind |-> kind, choice |-> choice,
                     before |-> [result |-> result, currentTaskId |-> currentTaskId,
                                 counting |-> timeLeft # NULL,
                                 photoActive |-> photoActive]]
    /\ clearOld' = clearOld + clearNew
    /\ clearNew' = 0
    /\ toast' = <<>>
    /\ UNCHANGED << gameState, completedTasks, history, dailyChallenges, shopError,
                    shares, now, nTasks, resolutions, claimCalls, levelCall, fault,
                    initialState, aliased, localStorage, timeLeft >>

\* the synchronous part of playGame / selectManually after the isAnimating
\* guard; choice is NONE for the random path
startSelection(kind, choice) ==
    /\ ops < MaxOps
    /\ ops' = ops + 1
    /\ isAnimating' = TRUE
    /\ result' = NONE
    /\ task' = NULL
    /\ timeLeft' = NULL
    /\ currentTaskId' = NULL
    /\ photoActive' = FALSE
    /\ selTimer' = [kind |-> kind, choice |-> choice,
                     before |-> [result |-> result, currentTaskId |-> currentTaskId,
                                 counting |-> timeLeft # NULL,
                                 photoActive |-> photoActive]]
    /\ clearOld' = clearOld + clearNew
    /\ clearNew' = 0
    /\ toast' = <<>>
    /\ UNCHANGED << gameState, completedTasks, history, dailyChallenges, shopError,
                    shares, now, nTasks, resolutions, claimCalls, levelCall, fault,
                    initialState, aliased, localStorage >>

\* if (isAnimating) return; the invocation leaves the pending timer alone
ignoredSelection ==
    /\ ops < MaxOps
    /\ ops' = ops + 1
    /\ toast' = <<>>
    /\ UNCHANGED << gameState, taskVars, completedTasks, dailyChallenges, shopError,
                    timerVars, shares, now, resolutions, claimCalls, levelCall, fault,
                    initialState, aliased, localStorage >>

playGame ==
    /\ ~fault
    /\ ops < MaxOps
    /\ IF isAnimating THEN ignoredSelection ELSE startSelection("random", NONE)

selectManuallyOf(choice) ==
    /\ ops < MaxOps
    /\ IF isAnimating THEN ignoredSelection ELSE startSelection("manual", choice)

selectManually ==
    /\ ~fault
    /\ ops < MaxOps
    /\ \E choice \in Kinds : selectManuallyOf(choice)

\* the body of the deliberation timer for a non-empty pool: the task is
\* presented under a new task id
present(newResult, isPhotoTask, title) ==
    /\ result' = newResult
    /\ task' = 1
    /\ currentTaskId' = nTasks + 1
    /\ nTasks' = nTasks + 1
    /\ history' = Append(history, newResult)
    /\ isAnimating' = FALSE
    /\ photoActive' = IF isPhotoTask /\ newResult = DARE THEN TRUE ELSE photoActive
    /\ timeLeft' = IF newResult = DARE /\ ~isPhotoTask THEN COUNTDOWN_START ELSE timeLeft
    /\ toast' = << title >>
    /\ selTimer' = NoTimer
    /\ UNCHANGED << gameState, completedTasks, dailyChallenges, shopError, timerVars,
                    shares, now, countVars, resolutions, levelCall, fault,
                    initialState, aliased, localStorage >>

\* an empty pool that leaves the selection running
emptyPool_stuck ==
    /\ toast' = <<"no_tasks">>
    /\ selTimer' = NoTimer
    /\ UNCHANGED << gameState, result, task, currentTaskId, completedTasks, timeLeft,
                    photoActive, history, dailyChallenges, shopError, timerVars,
                    shares, now, nTasks, countVars, resolutions, levelCall, fault,
                    initialState, aliased, localStorage, isAnimating >>

\* the body of the deliberation timer for an empty pool: a notification, and
\* the selection ends with nothing presented
emptyPool ==
    /\ isAnimating' = FALSE
    /\ toast' = <<"no_tasks">>
    /\ selTimer' = NoTimer
    /\ UNCHANGED << gameState, result, task, currentTaskId, completedTasks, timeLeft,
                    photoActive, history, dailyChallenges, shopError, timerVars,
                    shares, now, nTasks, countVars, resolutions, levelCall, fault,
                    initialState, aliased, localStorage >>

\* the deliberation timer fires (2000 ms random, 1500 ms manual); the 500 ms
\* timers set before the selection started have fired by then.  The pools of
\* the selected category are data outside the model: a pool is empty or not.
playGameTimerOf(newResult, isPhotoTask, empty) ==
    /\ selTimer.kind = "random"
    /\ clearOld = 0
    /\ IF empty THEN emptyPool ELSE present(newResult, isPhotoTask, "result")

playGameTimer ==
    /\ selTimer.kind = "random"
    /\ \E newResult \in Kinds, isPhotoTask \in BOOLEAN, empty \in BOOLEAN :
          playGameTimerOf(newResult, isPhotoTask, empty)

selectManuallyTimerOf(isPhotoTask, empty) ==
    /\ selTimer.kind = "manual"
    /\ clearOld = 0
    /\ IF empty THEN emptyPool ELSE present(selTimer.choice, isPhotoTask, "chosen")

selectManuallyTimer ==
    /\ selTimer.kind = "manual"
    /\ \E isPhotoTask \in BOOLEAN, empty \in BOOLEAN :
          selectManuallyTimerOf(isPhotoTask, empty)

\* ----------------------------------------------------------------- countdown
\* the 1000 ms timer of the countdown effect; the render that shows 0 runs the
\* effect's other branch at once: toast, setTimeLeft(null), applyPenalty()
countdownTick ==
    /\ timeLeft # NULL
    /\ timeLeft > 0
    /\ IF timeLeft - 1 > 0
       THEN /\ timeLeft' = timeLeft - 1
            /\ toast' = <<>>
            /\ UNCHANGED << gameState, aliased, localStorage >>
       ELSE /\ timeLeft' = NULL
            /\ gameState' = applyPenalty(gameState)
            /\ aliased' = spreadStats(aliased)
            /\ localStorage' = persisted(localStorage, gameState')
            /\ toast' = <<"time_up", "penalty">>
    /\ UNCHANGED << result, task, currentTaskId, completedTasks, isAnimating,
                    photoActive, history, dailyChallenges, shopError, selTimer,
                    timerVars, shares, now, nTasks, countVars, resolutions, levelCall, fault,
                    initialState >>

\* --------------------------------------------------------------------- share
RemoveAt(seq, i) == [j \in 1..(Len(seq) - 1) |-> IF j < i THEN seq[j] ELSE seq[j + 1]]

\* shareResult: navigator.share or navigator.clipboard.writeText is started; its
\* then-handler closes over the completeTask of this render
shareResult ==
    /\ ~fault
    /\ result # NONE
    /\ task # NULL
    /\ ops < MaxOps
    /\ shares' = Append(shares, Render)
    /\ ops' = ops + 1
    /\ toast' = <<>>
    /\ UNCHANGED << gameState, taskVars, completedTasks, dailyChallenges, shopError,
                    timerVars, now, resolutions, claimCalls, levelCall, fault,
                    initialState, aliased, localStorage >>

\* the promise resolves: completeTask(true), then sharedTasks + 1, and on the
\* clipboard path one more toast
shareResolved ==
    \E i \in 1..Len(shares), api \in {"share", "clipboard"} :
       /\ completeTask(shares[i], TRUE, TRUE,
                       IF api = "clipboard" THEN <<"copied">> ELSE <<>>)
       /\ shares' = RemoveAt(shares, i)
       /\ UNCHANGED << result, task, currentTaskId, isAnimating, history, shopError,
                       selTimer, clearOld, now, nTasks, countVars, levelCall, fault,
                    initialState >>

\* the promise rejects: nothing runs
shareRejected ==
    \E i \in 1..Len(shares) :
       /\ shares' = RemoveAt(shares, i)
       /\ toast' = <<>>
       /\ UNCHANGED << gameState, taskVars, completedTasks, dailyChallenges, shopError,
                       timerVars, now, countVars, resolutions, levelCall, fault,
                    initialState, aliased, localStorage >>

\* shareToTelegram: completeTask(true) at once, then sharedTasks + 1
shareToTelegram ==
    /\ ~fault
    /\ result # NONE
    /\ task # NULL
    /\ ops < MaxOps
    /\ completeTask(Render, TRUE, TRUE, <<"telegram">>)
    /\ ops' = ops + 1
    /\ UNCHANGED << result, task, currentTaskId, isAnimating, history, shopError,
                    selTimer, clearOld, shares, now, nTasks, claimCalls, levelCall, fault,
                    initialState >>

\* ------------------------------------------------------------ other handlers
\* purchaseItem: the price check reads the rendered state, the updater runs
\* item.action on the state of its own time
purchaseOf(item, surprise) ==
    /\ ops < MaxOps
    /\ ops' = ops + 1
    /\ IF gameState.playerStats.points < price(item)
       THEN /\ shopError' = TRUE
            /\ toast' = <<>>
            /\ UNCHANGED << gameState, aliased, localStorage >>
       ELSE /\ gameState' = shopAction(item, gameState, surprise, now)
            /\ aliased' = spreadStats(aliased)
            /\ localStorage' = persisted(localStorage, gameState')
            /\ toast' = <<"purchase_ok">>
            /\ shopError' = FALSE
    /\ UNCHANGED << taskVars, completedTasks, dailyChallenges, timerVars,
                    shares, now, resolutions, claimCalls, levelCall, fault, initialState >>

purchaseItem ==
    /\ ~fault
    /\ ops < MaxOps
    /\ \E item \in SHOP_ITEMS :
          \E surprise \in (IF item = "surprise" THEN Surprises ELSE {"xp"}) :
             purchaseOf(item, surprise)

\* INITIAL_GAME_STATE after the updater of handleClaimQuestReward has written
\* into the objects of prev, where a names the objects prev shares with it;
\* written is the state the updater returns
writtenThrough(initial, written, a) ==
    LET ps == written.playerStats
        nested == IF a.nested
                  THEN [initial EXCEPT !.availableQuests = written.availableQuests,
                                       !.playerStats.badges = ps.badges,
                                       !.playerStats.completedQuests = ps.completedQuests]
                  ELSE initial
    IN  IF a.stats THEN [nested EXCEPT !.playerStats = ps] ELSE nested

\* handleClaimQuestReward(quest) for quest number i of the panel
\* (availableQuests); the guard reads the quest object, which the updater of an
\* earlier claim has written in place
claimOf(i) ==
    LET quest == gameState.availableQuests[i]
    IN  /\ ~fault
        /\ ops < MaxOps
        /\ ops' = ops + 1
        /\ claimCalls' = [claimCalls EXCEPT ![quest.id] = @ + 1]
        /\ IF ~canClaim(quest)
           THEN /\ toast' = <<>>
                /\ UNCHANGED << gameState, initialState, aliased, localStorage >>
           ELSE /\ gameState' = claimReward(gameState, quest, now)
                /\ initialState' = writtenThrough(initialState, gameState', aliased)
                /\ aliased' = spreadState(aliased)
                /\ localStorage' = persisted(localStorage, gameState')
                /\ toast' = <<"reward_claimed">>
        /\ UNCHANGED << taskVars, completedTasks, dailyChallenges, shopError,
                        timerVars, shares, now, resolutions, levelCall, fault >>

handleClaimQuestReward == \E i \in 1..Len(gameState.availableQuests) : claimOf(i)

\* resetProgress: the state is INITIAL_GAME_STATE again, the completed-task
\* set, the history and the challenge list are emptied; the task on screen and
\* the timers are not touched.  The four keys are removed; the persist effect
\* then stores the game state again, unless gameState was INITIAL_GAME_STATE
\* itself already and no render follows
resetProgress ==
    /\ ~fault
    /\ ops < MaxOps
    /\ ops' = ops + 1
    /\ gameState' = initialState
    /\ aliased' = defaults
    /\ localStorage' =
         [truthOrDareGameState |->
             IF aliased.whole THEN absent ELSE stringify(initialState),
          truthOrDareDailyChallenges |-> absent,
          truthOrDareLastChallengeUpdate |-> NULL]
    /\ completedTasks' = {}
    /\ history' = <<>>
    /\ dailyChallenges' = <<>>
    /\ toast' = <<"progress_reset">>
    /\ UNCHANGED << result, task, currentTaskId, isAnimating, timeLeft, photoActive,
                    shopError, selTimer, timerVars, shares, now, nTasks,
                    resolutions, claimCalls, levelCall, fault, initialState >>

\* the difficulty buttons of the settings panel
setDifficulty ==
    \E diff \in Difficulties :
       /\ ~fault
       /\ diff # gameState.difficulty
       /\ ops < MaxOps
       /\ ops' = ops + 1
       /\ gameState' = [gameState EXCEPT !.difficulty = diff]
       /\ aliased' = spreadState(aliased)
       /\ localStorage' = persisted(localStorage, gameState')
       /\ toast' = <<>>
       /\ UNCHANGED << taskVars, completedTasks, dailyChallenges, shopError,
                       timerVars, shares, now, resolutions, claimCalls, levelCall, fault,
                       initialState >>

\* time passes
advanceClock ==
    /\ ops < MaxOps
    /\ ops' = ops + 1
    /\ now' = now + 1
    /\ toast' = <<>>
    /\ UNCHANGED << gameState, taskVars, completedTasks, dailyChallenges, shopError,
                    timerVars, shares, resolutions, claimCalls, levelCall, fault,
                    initialState, aliased, localStorage >>

\* the clock passes the next local midnight
nextDay ==
    /\ ops < MaxOps
    /\ ops' = ops + 1
    /\ now' = (toDateString(now) + 1) * (DAY_MS \div CLOCK_UNIT_MS)
    /\ toast' = <<>>
    /\ UNCHANGED << gameState, taskVars, completedTasks, dailyChallenges, shopError,
                    timerVars, shares, resolutions, claimCalls, levelCall, fault,
                    initialState, aliased, localStorage >>

\* the page is loaded again and finds the localStorage found: the module is
\* evaluated anew (INITIAL_GAME_STATE with quests generated now), Index mounts
\* with its initial state, and its mount effects run in order: the daily
\* challenges, the restore of the game state, the persist effect.  The timers
\* and promises of the page before are gone.  JSON.parse in the first effect
\* is not inside a try: when it throws, React takes the tree down; whether the
\* effects after it have run by then (effectsRun) depends on the React version,
\* and the persist effect of the first render stores INITIAL_GAME_STATE
reloadOf(found, effectsRun) ==
    LET today == toDateString(now)
        stored == found.truthOrDareDailyChallenges
        lastUpdate == found.truthOrDareLastChallengeUpdate
        regenerate == ~stored.held \/ lastUpdate # today
        thrown == ~regenerate /\ ~stored.parses
        savedState == found.truthOrDareGameState
        fresh == INITIAL_GAME_STATE(<<1, 1, 1, 1, 1, 1>>, now)
        restores == ~thrown /\ savedState.held /\ savedState.parses
    IN  /\ fault' = thrown
        /\ initialState' = fresh
        /\ gameState' = IF restores THEN spread(fresh, parse(savedState)) ELSE fresh
        /\ aliased' = IF restores THEN restored ELSE defaults
        /\ dailyChallenges' =
             IF regenerate THEN generateDailyChallenges
             ELSE IF thrown THEN <<>> ELSE parse(stored)
        /\ localStorage' =
             [truthOrDareGameState |->
                 IF thrown /\ ~effectsRun THEN savedState ELSE stringify(gameState'),
              truthOrDareDailyChallenges |->
                 IF regenerate THEN stringify(generateDailyChallenges) ELSE stored,
              truthOrDareLastChallengeUpdate |->
                 IF regenerate THEN today ELSE lastUpdate]
        /\ result' = NONE
        /\ task' = NULL
        /\ currentTaskId' = NULL
        /\ completedTasks' = {}
        /\ isAnimating' = FALSE
        /\ timeLeft' = NULL
        /\ photoActive' = FALSE
        /\ history' = <<>>
        /\ shopError' = FALSE
        /\ toast' = <<>>
        /\ selTimer' = NoTimer
        /\ clearOld' = 0
        /\ clearNew' = 0
        /\ shares' = <<>>
        /\ claimCalls' = IF restores THEN claimCalls
                         ELSE [i \in 1..Len(fresh.availableQuests) |-> 0]
        /\ UNCHANGED << now, nTasks, ops, resolutions, levelCall >>

\* what a text is found as: the text stored, or one that does not parse
foundAs(text, intact) == IF text.held /\ ~intact THEN malformed ELSE text

\* the session ends and the page is loaded again; a stored text may have been
\* damaged in between
reload ==
    /\ TRUE
    /\ \E gameIntact \in BOOLEAN, challengesIntact \in BOOLEAN, effectsRun \in BOOLEAN :
          reloadOf([localStorage EXCEPT
                       !.truthOrDareGameState = foundAs(@, gameIntact),
                       !.truthOrDareDailyChallenges = foundAs(@, challengesIntact)],
                   effectsRun)

\* ------------------------------------------------------------- specification
Next ==
    \/ playGame
    \/ selectManually
    \/ playGameTimer
    \/ selectManuallyTimer
    \/ Complete
    \/ Skip
    \/ PhotoComplete
    \/ PhotoSkip
    \/ ClearOldFire
    \/ ClearNewFire
    \/ countdownTick
    \/ shareResult
    \/ shareResolved
    \/ shareRejected
    \/ shareToTelegram
    \/ purchaseItem
    \/ handleClaimQuestReward
    \/ resetProgress
    \/ setDifficulty
    \/ advanceClock

Spec == Init /\ [][Next]_vars

\* the same program when no share or clipboard promise is ever started and the
\* progress is never reset: every handler runs from the current render, and
\* the completed-task set only grows
NextSeq ==
    \/ playGame
    \/ selectManually
    \/ playGameTimer
    \/ selectManuallyTimer
    \/ Complete
    \/ Skip
    \/ PhotoComplete
    \/ PhotoSkip
    \/ ClearOldFire
    \/ ClearNewFire
    \/ countdownTick
    \/ shareToTelegram
    \/ purchaseItem
    \/ handleClaimQuestReward
    \/ setDifficulty
    \/ advanceClock

SpecSeq == Init /\ [][NextSeq]_vars

\* the program over several sessions and days
NextStore ==
    \/ playGame
    \/ selectManually
    \/ playGameTimer
    \/ selectManuallyTimer
    \/ Complete
    \/ Skip
    \/ PhotoComplete
    \/ PhotoSkip
    \/ ClearOldFire
    \/ ClearNewFire
    \/ countdownTick
    \/ shareResult
    \/ shareResolved
    \/ shareRejected
    \/ shareToTelegram
    \/ purchaseItem
    \/ handleClaimQuestReward
    \/ resetProgress
    \/ setDifficulty
    \/ advanceClock
    \/ nextDay
    \/ reload

SpecStore == Init /\ [][NextStore]_vars

\* what happens without the player: a timer that was set fires (setTimeout,
\* setInterval), a promise that was started settles.  Nothing the player does
\* (a click, a reload) is bound to happen
Scheduled ==
    /\ WF_vars(playGameTimer)
    /\ WF_vars(selectManuallyTimer)
    /\ WF_vars(ClearOldFire)
    /\ WF_vars(ClearNewFire)
    /\ WF_vars(countdownTick)
    /\ WF_vars(shareResolved \/ shareRejected)

SpecStoreLive == SpecStore /\ Scheduled

\* a fresh session in which playGame has presented its first task; ops counts
\* the operations from here on
InitPresented ==
    /\ now = 1
    /\ gameState = INITIAL_GAME_STATE(<<1, 1, 1, 1, 1, 1>>, 1)
    /\ \E newResult \in Kinds, isPhotoTask \in BOOLEAN :
          /\ result = newResult
          /\ history = << newResult >>
          /\ photoActive = (isPhotoTask /\ newResult = DARE)
          /\ timeLeft = IF newResult = DARE /\ ~isPhotoTask THEN COUNTDOWN_START ELSE NULL
    /\ task = 1
    /\ currentTaskId = 1
    /\ nTasks = 1
    /\ completedTasks = {}
    /\ isAnimating = FALSE
    /\ dailyChallenges = generateDailyChallenges
    /\ shopError = FALSE
    /\ toast = <<"result">>
    /\ selTimer = NoTimer
    /\ clearOld = 0
    /\ clearNew = 0
    /\ shares = <<>>
    /\ ops = 0
    /\ resolutions = [i \in 1..(MaxOps + 1) |-> 0]
    /\ claimCalls = [i \in 1..Len(gameState.availableQuests) |-> 0]
    /\ initialState = gameState
    /\ aliased = defaults
    /\ localStorage =
         [truthOrDareGameState |-> stringify(gameState),
          truthOrDareDailyChallenges |-> stringify(generateDailyChallenges),
          truthOrDareLastChallengeUpdate |-> toDateString(now)]
    /\ fault = FALSE
    /\ levelCall = NoCall

\* the handlers of the task on screen: selections, resolutions, the countdown
\* and the share paths
NextTask ==
    \/ playGame
    \/ selectManually
    \/ playGameTimer
    \/ selectManuallyTimer
    \/ Complete
    \/ Skip
    \/ PhotoComplete
    \/ PhotoSkip
    \/ ClearOldFire
    \/ ClearNewFire
    \/ countdownTick
    \/ shareResult
    \/ shareResolved
    \/ shareRejected
    \/ shareToTelegram

SpecTask == InitPresented /\ [][NextTask]_vars

SpecTaskLive == SpecTask /\ Scheduled

\* ------------------------------------------------ the level utilities alone
\* calculateXpForNextLevel on limbs: Math.pow(level, 2) * 100 is exact below
\* 2^53
calculateXpForNextLevelWide(level) == Times(Mul(level, level), 100)

\* the levels whose thresholds are tried
WideLevels == {2^23 - 1 + k : k \in 0..MaxWide}

\* the xp arguments: every small one, and at each tried threshold the last xp
\* of the level below and the first of the level
XpInputs ==
    {Wide(n) : n \in 0..MaxXp}
    \cup {Sub(calculateXpForNextLevelWide(Wide(L)), Wide(d)) : L \in WideLevels, d \in {0, 1}}

LevelInputs == (0 - MaxBelow)..MaxLevel

\* a call that has not returned yet
pendingCall(fn, xp, level) == [NoCall EXCEPT !.fn = fn, !.xp = xp, !.level = level]

\* one call of calculateLevel(xp) or of calculateProgress(xp, level), with the
\* game in its fresh state
InitLevel ==
    /\ InitGame
    /\ gameState \notin SavedStates
    /\ levelCall \in {pendingCall("calculateLevel", xp, 0) : xp \in XpInputs}
                     \cup {pendingCall("calculateProgress", Wide(n), level) :
                              n \in 0..MaxXp, level \in LevelInputs}

calculateLevelReturns ==
    /\ levelCall.fn = "calculateLevel"
    /\ ~levelCall.returned
    /\ levelCall' = [levelCall EXCEPT !.returned = TRUE,
                                      !.levelOut = calculateLevelDouble(levelCall.xp)]
    /\ UNCHANGED gameVars

calculateProgressReturns ==
    /\ levelCall.fn = "calculateProgress"
    /\ ~levelCall.returned
    /\ levelCall' = [levelCall EXCEPT
                       !.returned = TRUE,
                       !.progress = calculateProgress(Narrow(levelCall.xp), levelCall.level)]
    /\ UNCHANGED gameVars

NextLevel ==
    \/ calculateLevelReturns
    \/ calculateProgressReturns

SpecLevel == InitLevel /\ [][NextLevel]_vars

\* ================================================================ properties
playerStats == gameState.playerStats

occurrences(seq, x) == Cardinality({k \in 1..Len(seq) : seq[k] = x})

\* the closures whose completeTask a step may have run: the current render for
\* a button, the closure of the promise that left the queue for a share callback
stepClosures ==
    IF shares' = shares THEN {Render}
    ELSE {shares[j] : j \in {k \in 1..Len(shares) : shares' = RemoveAt(shares, k)}}

\* the step ran completeTask from closure c past both of its guards
resolvedBy(c) ==
    /\ c.result # NONE /\ c.task # NULL /\ c.currentTaskId # NULL
    /\ c.currentTaskId \notin c.completedTasks
    /\ resolutions' = [resolutions EXCEPT ![c.currentTaskId] = @ + 1]

completedBy(c) == resolvedBy(c) /\ includes(toast', "task_completed")
skippedBy(c) == resolvedBy(c) /\ includes(toast', "task_skipped")

\* C1: a call of handleClaimQuestReward for a completed quest whose reward is
\* not yet claimed adds exactly reward.points, reward.xp and the reward's skip
\* tokens, appends the quest id to completedQuests and marks the reward
\* claimed; a call for any other quest, an already claimed one included,
\* leaves the game state as it is, so that two calls in sequence grant the
\* reward once and the id occurs in completedQuests once.
ClaimGrantsOnce ==
    [][\A i \in 1..Len(gameState.availableQuests) :
          LET quest == gameState.availableQuests[i]
              after == gameState'.availableQuests[i]
          IN  claimOf(i) =>
                IF quest.isCompleted /\ ~quest.reward.claimed
                THEN /\ playerStats'.points = playerStats.points + quest.reward.points
                     /\ playerStats'.xp = playerStats.xp + quest.reward.xp
                     /\ playerStats'.skipTokens =
                           playerStats.skipTokens + quest.reward.skipItems
                     /\ playerStats'.completedQuests =
                           Append(playerStats.completedQuests, quest.id)
                     /\ after.reward.claimed
                     /\ occurrences(playerStats'.completedQuests, quest.id) = 1
                ELSE /\ gameState' = gameState
                     /\ occurrences(playerStats'.completedQuests, quest.id) =
                           (IF quest.reward.claimed THEN 1 ELSE 0)]_vars

\* the handler has been called twice for a quest whose reward is claimed
ClaimedTwice ==
    \E i \in 1..Len(gameState.availableQuests) :
       LET quest == gameState.availableQuests[i]
       IN  /\ claimCalls[quest.id] = 2
           /\ quest.reward.claimed
           /\ occurrences(playerStats.completedQuests, quest.id) = 1

\* C2: in every reachable state the stored level is the level of the stored
\* xp, floor(sqrt(xp / 100)) + 1.
LevelFollowsXp == playerStats.level = calculateLevel(playerStats.xp)

\* C3: when a task is completed the xp gained is
\* floor(floor(floor(base * rankMult) * photo) * boost), base 20/40/80 by
\* difficulty, rankMult 1/1.1/1.2/1.3/1.5 by the rank of the xp held before,
\* photo 1.5 for a photo task, boost 2 while the clock is before
\* xpBoostEndTime; base 40 at rank multiplier 1.3 on a photo task with the
\* boost running gains 156.
claimedBase(difficulty) ==
    CASE difficulty = "easy" -> 20 [] difficulty = "medium" -> 40 [] difficulty = "hard" -> 80

claimedRankMult10(xp) ==
    IF xp >= 15000 THEN 15
    ELSE IF xp >= 5000 THEN 13
    ELSE IF xp >= 2000 THEN 12
    ELSE IF xp >= 500 THEN 11
    ELSE 10

boostRunning == playerStats.xpBoostEndTime # NULL /\ now < playerStats.xpBoostEndTime

stackedXp(base, mult10, photo, boost) ==
    ((((base * mult10) \div 10) * (IF photo THEN 15 ELSE 10)) \div 10)
       * (IF boost THEN 2 ELSE 1)

XpGainStacks ==
    [][\A c \in stepClosures :
          completedBy(c) =>
            /\ playerStats'.xp - playerStats.xp =
                  stackedXp(claimedBase(gameState.difficulty),
                            claimedRankMult10(playerStats.xp), c.photoActive,
                            boostRunning)
            /\ (/\ gameState.difficulty = "medium"
                /\ claimedRankMult10(playerStats.xp) = 13
                /\ c.photoActive
                /\ boostRunning) => playerStats'.xp - playerStats.xp = 156]_vars

\* a master at medium difficulty has completed a photo task inside the boost
\* window and holds 156 xp more
Gained156 ==
    /\ playerStats.xp = SavedMaster.playerStats.xp + 156
    /\ gameState.difficulty = "medium"
    /\ toast = <<"task_completed", "photo_done">>
    /\ now < playerStats.xpBoostEndTime

claimedPoints(difficulty) ==
    CASE difficulty = "easy" -> 10 [] difficulty = "medium" -> 25 [] difficulty = "hard" -> 50

\* C4: completing a presented task at difficulty d adds 10/25/50 points,
\* counts one more completed task, one more truth iff the task is a TRUTH and
\* one more dare iff it is a DARE, one more hard task iff d is hard, and
\* raises the current streak by one; from the fresh state at medium a
\* completed TRUTH leaves points 25, xp 40, truthsAnswered 1, currentStreak 1.
CompletionCounts ==
    [][\A c \in stepClosures :
          completedBy(c) =>
            LET d == gameState.difficulty
            IN  /\ playerStats'.points = playerStats.points + claimedPoints(d)
                /\ playerStats'.tasksCompleted = playerStats.tasksCompleted + 1
                /\ playerStats'.truthsAnswered =
                      playerStats.truthsAnswered + (IF c.result = TRUTH THEN 1 ELSE 0)
                /\ playerStats'.daresCompleted =
                      playerStats.daresCompleted + (IF c.result = DARE THEN 1 ELSE 0)
                /\ playerStats'.truthsAnswered + playerStats'.daresCompleted =
                      playerStats.truthsAnswered + playerStats.daresCompleted + 1
                /\ playerStats'.hardTasksCompleted =
                      playerStats.hardTasksCompleted + (IF d = "hard" THEN 1 ELSE 0)
                /\ playerStats'.currentStreak = playerStats.currentStreak + 1
                /\ (playerStats = INITIAL_PLAYER_STATS /\ d = "medium" /\ c.result = TRUTH)
                      => /\ playerStats'.points = 25
                         /\ playerStats'.xp = 40
                         /\ playerStats'.truthsAnswered = 1
                         /\ playerStats'.currentStreak = 1]_vars

\* the fresh player at medium has completed one TRUTH
FreshTruthCompleted ==
    /\ gameState.difficulty = "medium"
    /\ playerStats =
          [INITIAL_PLAYER_STATS EXCEPT !.points = 25, !.xp = 40, !.tasksCompleted = 1,
                                       !.truthsAnswered = 1, !.currentStreak = 1,
                                       !.maxStreak = 1]
    /\ toast = <<"task_completed">>
    /\ history = <<TRUTH>>

\* C5: a skip of the pending task while skipTokens > 0 takes one token, adds
\* the base points and the base xp of the difficulty without any multiplier,
\* counts one more completed task and leaves both streaks, the truth, dare and
\* hard counters, the daily challenges and the quests as they were.
TokenSkipPays ==
    [][\A c \in stepClosures :
          (skippedBy(c) /\ playerStats.skipTokens > 0) =>
            /\ playerStats'.skipTokens = playerStats.skipTokens - 1
            /\ playerStats'.points = playerStats.points + claimedPoints(gameState.difficulty)
            /\ playerStats'.xp = playerStats.xp + claimedBase(gameState.difficulty)
            /\ playerStats'.tasksCompleted = playerStats.tasksCompleted + 1
            /\ playerStats'.currentStreak = playerStats.currentStreak
            /\ playerStats'.maxStreak = playerStats.maxStreak
            /\ playerStats'.truthsAnswered = playerStats.truthsAnswered
            /\ playerStats'.daresCompleted = playerStats.daresCompleted
            /\ playerStats'.hardTasksCompleted = playerStats.hardTasksCompleted
            /\ dailyChallenges' = dailyChallenges
            /\ gameState'.availableQuests = gameState.availableQuests
            /\ gameState'.communityQuests = gameState.communityQuests]_vars

\* a player above the amateur rank with a streak running has just skipped with
\* a token
TokenSkipped ==
    /\ toast = <<"skip_token_used", "task_skipped">>
    /\ playerStats.currentStreak > 0
    /\ playerStats.xp >= 2000
    /\ \E id \in 1..MaxOps : resolutions[id] = 1

\* C6: a skip while skipTokens is 0 sets the current streak to 0 and leaves
\* points, xp, level, the completed, truth, dare and hard counters and
\* skipTokens as they were.
PlainSkipKeepsStats ==
    [][\A c \in stepClosures :
          (skippedBy(c) /\ playerStats.skipTokens = 0) =>
            /\ playerStats'.currentStreak = 0
            /\ playerStats'.points = playerStats.points
            /\ playerStats'.xp = playerStats.xp
            /\ playerStats'.level = playerStats.level
            /\ playerStats'.tasksCompleted = playerStats.tasksCompleted
            /\ playerStats'.truthsAnswered = playerStats.truthsAnswered
            /\ playerStats'.daresCompleted = playerStats.daresCompleted
            /\ playerStats'.hardTasksCompleted = playerStats.hardTasksCompleted
            /\ playerStats'.skipTokens = playerStats.skipTokens]_vars

\* C7: no step other than resetProgress lowers maxStreak, and maxStreak is at
\* least currentStreak before and after every step.
StreakHighWater ==
    [][/\ resetProgress \/ playerStats'.maxStreak >= playerStats.maxStreak
       /\ playerStats'.maxStreak >= playerStats'.currentStreak
       /\ playerStats.maxStreak >= playerStats.currentStreak]_vars

\* the countdown has run out on a player with a streak: the streak is gone,
\* its high-water mark stays
StreakLostMarkKept ==
    /\ toast = <<"time_up", "penalty">>
    /\ playerStats.penalties = 1
    /\ playerStats.currentStreak = 0
    /\ playerStats.maxStreak > 0

\* C8: a completed TRUTH task raises by one the progress of the truth quest
\* that is not yet completed, any completed task raises by one the progress
\* of the community quest that is not yet completed, and the quest is
\* completed as soon as its progress has reached its target.
advanced(quest, after) ==
    /\ after.currentProgress = quest.currentProgress + 1
    /\ after.isCompleted = (after.currentProgress >= quest.targetValue)

QuestProgressAdvances ==
    [][\A c \in stepClosures :
          completedBy(c) =>
            /\ \A i \in 1..Len(gameState.availableQuests) :
                  LET quest == gameState.availableQuests[i]
                  IN  (quest.title = "truth_master" /\ c.result = TRUTH
                          /\ ~quest.isCompleted)
                        => advanced(quest, gameState'.availableQuests[i])
            /\ \A i \in 1..Len(gameState.communityQuests) :
                  LET quest == gameState.communityQuests[i]
                  IN  ~quest.isCompleted
                        => advanced(quest, gameState'.communityQuests[i])]_vars

\* C9: a handler that calls completeTask for a task id already in the
\* completed-task set is answered with the error toast and changes neither the
\* player's points, xp, streaks, counters and skip tokens nor the daily
\* challenges nor the completed-task set; with every handler run from the
\* current render no task is resolved twice.
duplicateAttempt ==
    /\ result # NONE /\ task # NULL /\ currentTaskId # NULL
    /\ currentTaskId \in completedTasks
    /\ Complete \/ Skip \/ PhotoComplete \/ shareToTelegram

ResolvedAtMostOnce == \A id \in 1..MaxOps : resolutions[id] <= 1

\* C11: a purchase invoked with fewer points than the item's price sets the
\* shop error, shows no purchase toast and leaves the whole game state as it
\* was; a purchase invoked with enough points clears the error and takes the
\* price from the points (the surprise item may give 200 of them back), which
\* therefore stay at 0 or above.
PurchaseNeedsPoints ==
    [][\A item \in SHOP_ITEMS : \A surprise \in Surprises :
          purchaseOf(item, surprise) =>
             IF playerStats.points < price(item)
             THEN /\ shopError'
                  /\ toast' = <<>>
                  /\ gameState' = gameState
             ELSE /\ ~shopError'
                  /\ toast' = <<"purchase_ok">>
                  /\ playerStats'.points >= 0
                  /\ playerStats'.points =
                        playerStats.points - price(item)
                        + (IF item = "surprise" /\ surprise = "points" THEN 200 ELSE 0)]_vars

\* a purchase was refused to a player without points
PurchaseRefused ==
    /\ shopError
    /\ toast = <<>>
    /\ playerStats.points = 0
    /\ ops = 1

\* C12: in every reachable state the player's points and skip tokens are 0
\* or more.
NeverInDebt ==
    /\ playerStats.points >= 0
    /\ playerStats.skipTokens >= 0

\* the countdown has run out on a player with fewer points than the penalty
\* takes: the points stop at 0
PenaltyFloored ==
    /\ toast = <<"time_up", "penalty">>
    /\ playerStats.penalties >= 1
    /\ playerStats.points = 0

\* a deliberation timer fires and finds the pool empty
emptyPoolFound ==
    \/ \E newResult \in Kinds, isPhotoTask \in BOOLEAN :
          playGameTimerOf(newResult, isPhotoTask, TRUE)
    \/ \E isPhotoTask \in BOOLEAN : selectManuallyTimerOf(isPhotoTask, TRUE)

\* C13: a selection that finds its pool empty presents nothing: result, task
\* and currentTaskId are unset after it, the history and the task count are
\* what they were, no countdown and no photo flow run, the empty-pool toast
\* is levelCall, and isAnimating is false again with no timer pending, so that
\* the next selection is accepted.
EmptyPoolPresentsNothing ==
    [][emptyPoolFound =>
          /\ result' = NONE
          /\ task' = NULL
          /\ currentTaskId' = NULL
          /\ history' = history
          /\ nTasks' = nTasks
          /\ timeLeft' = NULL
          /\ ~photoActive'
          /\ toast' = <<"no_tasks">>
          /\ ~isAnimating'
          /\ selTimer' = NoTimer]_vars

\* after one presented task a second selection has found the pool empty: the
\* history still holds the one task
EmptyPoolAfterTask ==
    /\ toast = <<"no_tasks">>
    /\ ~isAnimating
    /\ result = NONE
    /\ currentTaskId = NULL
    /\ Len(history) = 1
    /\ nTasks = 1

\* C14: a selection that was started over an unresolved presented task and
\* finds its pool empty leaves that task as the selection found it: the same
\* result and currentTaskId, its countdown running if it was, its photo flow
\* open if it was, and the history and the player's statistics unchanged.
EmptyPoolKeepsTask ==
    [][LET before == selTimer.before
       IN  (/\ emptyPoolFound
            /\ before.currentTaskId # NULL
            /\ resolutions[before.currentTaskId] = 0)
           => /\ result' = before.result
              /\ currentTaskId' = before.currentTaskId
              /\ (timeLeft' # NULL) = before.counting
              /\ photoActive' = before.photoActive
              /\ history' = history
              /\ playerStats' = playerStats]_vars

\* a countdown belongs to the task on screen, which is unresolved, and no
\* selection is running
countdownOwned ==
    timeLeft # NULL =>
       /\ ~isAnimating
       /\ currentTaskId # NULL
       /\ resolutions[currentTaskId] = 0

LastSelectionWins ==
    [][/\ playGame => selTimer'.kind = "random"
       /\ \A choice \in Kinds :
             selectManuallyOf(choice) =>
                /\ selTimer'.kind = "manual"
                /\ selTimer'.choice = choice]_vars

\* C17: whatever preceded it, every resetProgress step leaves the documented
\* default statistics (no points, no xp, level 1, no streaks, all counters 0,
\* three skip tokens, no boost, no badges and no quests), an empty
\* completed-task set and an empty history.
ResetRestoresDefaults ==
    [][resetProgress =>
          /\ playerStats'.points = 0
          /\ playerStats'.xp = 0
          /\ playerStats'.level = 1
          /\ playerStats'.currentStreak = 0
          /\ playerStats'.maxStreak = 0
          /\ playerStats'.tasksCompleted = 0
          /\ playerStats'.truthsAnswered = 0
          /\ playerStats'.daresCompleted = 0
          /\ playerStats'.hardTasksCompleted = 0
          /\ playerStats'.sharedTasks = 0
          /\ playerStats'.penalties = 0
          /\ playerStats'.skipTokens = 3
          /\ playerStats'.xpBoostEndTime = NULL
          /\ playerStats'.badges = <<>>
          /\ playerStats'.completedQuests = <<>>
          /\ playerStats'.activeQuests = <<>>
          /\ \A i \in 1..Len(gameState'.availableQuests) :
                ~gameState'.availableQuests[i].reward.claimed
          /\ completedTasks' = {}
          /\ history' = <<>>]_vars

\* the progress was reset right after handleClaimQuestReward had run: the
\* state is INITIAL_GAME_STATE, with no points and no completed quests
ResetAfterClaim ==
    /\ toast = <<"progress_reset">>
    /\ ops = 2
    /\ aliased = defaults
    /\ \E id \in DOMAIN claimCalls : claimCalls[id] = 1
    /\ playerStats.completedQuests = <<>>
    /\ playerStats.points = 0

\* C18: the updater of every granted quest claim leaves the state it was
\* given as it was, and run a second time on that state it returns the state
\* it returned the first time.
ClaimLeavesSnapshot ==
    [][\A i \in 1..Len(gameState.availableQuests) :
          LET quest == gameState.availableQuests[i]
          IN  (claimOf(i) /\ canClaim(quest)) =>
                 /\ prevAfterClaim(gameState, quest, now) = gameState
                 /\ claimReward(prevAfterClaim(gameState, quest, now), quest, now)
                      = gameState']_vars

\* the two models of calculateLevel agree on every xp the game model computes
\* with: the double arithmetic gives what the integer square root gives
LevelModelsAgree ==
    (levelCall.fn = "calculateLevel" /\ levelCall.returned /\ BitLen(levelCall.xp) < 31) =>
       Narrow(levelCall.levelOut) = calculateLevel(Narrow(levelCall.xp))

\* C19: the level L that calculateLevel returns for an xp >= 0 is at least 1,
\* it is the level whose range holds xp, (L - 1)^2 * 100 <= xp < L^2 * 100, so
\* that the xp still missing for the next level is positive, the level of
\* xp + 1 is not lower, and the level of xp = 0 is 1.
LevelBracketsXp ==
    (levelCall.fn = "calculateLevel" /\ levelCall.returned) =>
       LET xp == levelCall.xp
           L  == levelCall.levelOut
       IN  /\ L # <<>>
           /\ ~Less(xp, calculateXpForNextLevelWide(Sub(L, <<1>>)))
           /\ Less(xp, calculateXpForNextLevelWide(L))
           /\ ~Less(calculateLevelDouble(Add(xp, <<1>>)), L)
           /\ xp = <<>> => L = <<1>>

challengesOutdated ==
    /\ localStorage.truthOrDareLastChallengeUpdate # NULL
    /\ localStorage.truthOrDareLastChallengeUpdate # toDateString(now)

\* C21: the daily challenges are regenerated exactly when the calendar date
\* differs from the stored last-update date or nothing is stored: a step stores
\* a new last-update date only when the old one was another day or missing,
\* the challenges are then the fresh set and the date stored is today; and
\* once the date has changed, the regeneration comes about whatever the player
\* does or does not do.
ChallengesFollowDate ==
    /\ [][localStorage'.truthOrDareLastChallengeUpdate
              \notin {NULL, localStorage.truthOrDareLastChallengeUpdate}
            => /\ localStorage.truthOrDareLastChallengeUpdate # toDateString(now)
               /\ localStorage'.truthOrDareLastChallengeUpdate = toDateString(now)
               /\ dailyChallenges' = generateDailyChallenges
               /\ localStorage'.truthOrDareDailyChallenges
                     = stringify(generateDailyChallenges)]_vars
    /\ (challengesOutdated ~> ~challengesOutdated)

\* C22: whenever a session starts on a stored text that does not parse (the
\* game state, the daily challenges), the start completes without an uncaught
\* fault and the state concerned has its default value: the game state is
\* INITIAL_GAME_STATE, the daily challenges are the generated set.
MalformedFallsBack ==
    [][\A gameIntact \in BOOLEAN, challengesIntact \in BOOLEAN, effectsRun \in BOOLEAN :
          reloadOf([localStorage EXCEPT
                       !.truthOrDareGameState = foundAs(@, gameIntact),
                       !.truthOrDareDailyChallenges = foundAs(@, challengesIntact)],
                   effectsRun)
          => /\ ~fault'
             /\ ~gameIntact => gameState' = INITIAL_GAME_STATE(<<1, 1, 1, 1, 1, 1>>, now)
             /\ ~challengesIntact => dailyChallenges' = generateDailyChallenges]_vars

\* the quests of the panel and the community quest
allQuests == gameState.availableQuests \o gameState.communityQuests

\* the quest's endDate has passed (QuestsPanel: endDate - Date.now() <= 0)
expired(quest) == quest.endDate <= now

\* C23: whenever a quest has passed its endDate, the expired quests are
\* eventually replaced by freshly generated ones: a state with an expired
\* quest leads to a state without one.
ExpiredQuestsReplaced ==
    (\E i \in 1..Len(allQuests) : expired(allQuests[i]))
       ~> (\A i \in 1..Len(allQuests) : ~expired(allQuests[i]))

\* the step ends the daily challenges it found: resetProgress empties them and
\* removes the stored date, a regeneration stores a new date, a mount that
\* throws leaves none
challengesEnded ==
    \/ localStorage'.truthOrDareLastChallengeUpdate
          # localStorage.truthOrDareLastChallengeUpdate
    \/ fault'

\* the step ends the quests it found: gameState is INITIAL_GAME_STATE itself
\* afterwards (resetProgress, a session that restores nothing)
questsEnded == aliased' = defaults

\* C24: isCompleted of a quest or of a daily challenge never goes from true
\* back to false while that quest or challenge exists (until a regeneration or
\* a reset); a completed STREAK challenge keeps its progress when the streak
\* goes back to 0; and a quest's reward.claimed is true only if its
\* isCompleted is true.
CompletedStaysCompleted ==
    /\ [](\A i \in 1..Len(allQuests) :
             allQuests[i].reward.claimed => allQuests[i].isCompleted)
    /\ [][/\ (questsEnded \/
                \A i \in 1..Len(allQuests) :
                   allQuests[i].isCompleted => allQuests[i]'.isCompleted)
           /\ (challengesEnded \/
                \A i \in 1..Len(dailyChallenges) :
                   dailyChallenges[i].isCompleted
                      => /\ dailyChallenges'[i].isCompleted
                         /\ (/\ dailyChallenges[i].type = "STREAK"
                             /\ gameState'.playerStats.currentStreak = 0)
                            => dailyChallenges'[i].progress
                                  = dailyChallenges[i].progress)]_vars

\* the session is ended and a new one started on the day of the stored
\* challenges, with the stored texts as the session left them
reloadedSameDay ==
    /\ ~fault
    /\ localStorage.truthOrDareLastChallengeUpdate = toDateString(now)
    /\ localStorage.truthOrDareDailyChallenges.parses
    /\ \E effectsRun \in BOOLEAN : reloadOf(localStorage, effectsRun)

\* C25: the persisted state round-trips: ending the session and starting a
\* new one on the same calendar day restores a PlayerStats equal field for
\* field to the one in memory before, and the daily challenges with the
\* progress and isCompleted they had before.
ReloadRoundTrips ==
    [][reloadedSameDay
         => /\ gameState'.playerStats = gameState.playerStats
            /\ Len(dailyChallenges') = Len(dailyChallenges)
            /\ \A i \in 1..Len(dailyChallenges) :
                  /\ dailyChallenges'[i].progress = dailyChallenges[i].progress
                  /\ dailyChallenges'[i].isCompleted = dailyChallenges[i].isCompleted]_vars

\* the step applies the timeout penalty, once
penaltyApplied ==
    gameState'.playerStats =
       [playerStats EXCEPT !.points = Max(0, @ - PENALTY_POINTS),
                           !.penalties = @ + 1,
                           !.currentStreak = 0]

\* the step resolves the task on screen / starts a new selection over it
resolvedNow ==
    /\ currentTaskId # NULL
    /\ resolutions'[currentTaskId] > resolutions[currentTaskId]

supersededNow == currentTaskId' # currentTaskId

\* C26: a presented DARE task that is not a photo task starts a countdown of
\* 60; the countdown goes down by 1 per tick; unless the task is resolved or
\* superseded, the countdown comes to its end, and it ends in the timeout
\* penalty, applied exactly once (points max(0, points - 5), penalties + 1,
\* currentStreak 0) with the countdown cleared; no other step adds a penalty.
CountdownRunsOut ==
    /\ [][(supersededNow /\ result' = DARE /\ ~photoActive')
            => timeLeft' = COUNTDOWN_START]_vars
    /\ [][(timeLeft # NULL /\ timeLeft' # timeLeft)
            => \/ timeLeft' = timeLeft - 1 /\ timeLeft' > 0
                  /\ gameState' = gameState
               \/ timeLeft' = NULL /\ timeLeft = 1 /\ penaltyApplied
               \/ timeLeft' = NULL /\ resolvedNow
               \/ timeLeft' = NULL /\ supersededNow]_vars
    /\ [][gameState'.playerStats.penalties > playerStats.penalties
            => timeLeft = 1 /\ timeLeft' = NULL /\ penaltyApplied]_vars
    /\ ((timeLeft # NULL) ~> (timeLeft = NULL))

\* C27: in every reachable state a countdown runs only for a presented DARE
\* task whose photo flow is not active, the photo flow is active only for a
\* presented DARE task without a countdown, and a TRUTH task has neither.
CountdownAndPhotoForDareOnly ==
    /\ timeLeft # NULL
          => result = DARE /\ task # NULL /\ currentTaskId # NULL /\ ~photoActive
    /\ photoActive
          => result = DARE /\ task # NULL /\ currentTaskId # NULL /\ timeLeft = NULL
    /\ result = TRUTH => timeLeft = NULL /\ ~photoActive

\* the countdown of the task on screen has just run out: the last step showed
\* the two toasts of the timeout and applied the penalty
timedOut == toast = <<"time_up", "penalty">> /\ currentTaskId # NULL

\* C28: a presented task yields at most one outcome: once the timeout has
\* applied its penalty to the task on screen, no completion or skip of that
\* task changes points, XP, streak or counters any more.
TimedOutTaskIsSpent ==
    [][(timedOut /\ resolvedNow) => gameState'.playerStats = playerStats]_vars

\* the step is the then-handler of a share or clipboard promise that was
\* started for a task other than the one on screen now
staleShareResolved ==
    /\ currentTaskId # NULL
    /\ gameState'.playerStats.sharedTasks = playerStats.sharedTasks + 1
    /\ \E i \in 1..Len(shares) :
          /\ shares[i].currentTaskId # currentTaskId
          /\ shares' = RemoveAt(shares, i)

\* C29: a share or clipboard callback that resolves after a newer task has
\* been selected does not touch the newer task: it leaves the countdown
\* alone, it does not clear the displayed result and text (at once or by a
\* timer it sets), and it changes nothing about the newer task id being
\* resolved.
StaleShareSparesNewTask ==
    [][staleShareResolved
         => /\ timeLeft' = timeLeft
            /\ photoActive' = photoActive
            /\ result' = result
            /\ task' = task
            /\ clearNew' = clearNew
            /\ (currentTaskId \in completedTasks') = (currentTaskId \in completedTasks)
            /\ resolutions'[currentTaskId] = resolutions[currentTaskId]]_vars

\* the tasks counted as completed that are neither truths nor dares
tokenSkipsCounted(ps) == ps.tasksCompleted - ps.truthsAnswered - ps.daresCompleted

\* C30: tasksCompleted = truthsAnswered + daresCompleted + the number of token
\* skips used since the reset: the difference is 0 after a reset, every step
\* that uses a skip token adds 1 to it and no other step changes it; hence
\* tasksCompleted >= truthsAnswered + daresCompleted, and hardTasksCompleted
\* <= tasksCompleted, in every state.
CountersAddUp ==
    /\ [](/\ tokenSkipsCounted(playerStats) >= 0
          /\ playerStats.hardTasksCompleted <= playerStats.tasksCompleted)
    /\ [][tokenSkipsCounted(gameState'.playerStats) =
             IF resetProgress THEN 0
             ELSE tokenSkipsCounted(playerStats)
                  + (IF includes(toast', "skip_token_used") THEN 1 ELSE 0)]_vars

\* from the fresh state: a task completed, then another one skipped with a token
TokenSkipAfterCompletion ==
    /\ toast = <<"skip_token_used", "task_skipped">>
    /\ playerStats.tasksCompleted = 2
    /\ playerStats.truthsAnswered + playerStats.daresCompleted = 1
    /\ playerStats.skipTokens = 2

====
